---- MODULE Spec2Model ----
(***************************************************************************)
(* express-plus: the mount ledger (mountRegistry / registerMount), the two  *)
(* composition paths (combineRegistries and the generateOpenAPIDocument    *)
(* override of expressPlus), the attach (use) overrides and the verb       *)
(* dispatcher (enhanceHttpMethods).                                        *)
(*                                                                         *)
(* Strings are sequences of one-character strings, so that startsWith,     *)
(* endsWith, slice, substring and concatenation are computed as the code   *)
(* computes them.                                                          *)
(***************************************************************************)
EXTENDS Integers, Sequences, FiniteSets, TLC

\* ------------------------------------------------------------------ bounds
\* Number of setup/composition operations in one behaviour of Spec.
MaxOps == 4
\* Number of attach (use) calls in one behaviour of SpecAttach.
MaxUses == 2
\* Most handlers (after the optional path) in one attach call.
MaxHandlers == 2
\* Longest argument list of a wrapped verb call in SpecDispatch.
MaxArgs == 4

\* ----------------------------------------------------------------- strings
Slash == "/"
Root == <<"/">>

startsWithSlash(s) == Len(s) > 0 /\ s[1] = Slash
endsWithSlash(s) == Len(s) > 0 /\ s[Len(s)] = Slash

\* ------------------------------------------------------------- definitions
\* One element of a raw registry's definitions array.  A path definition has
\* type "path", no name, and a schema {method, path, ...metadata}; any other
\* definition has a type, possibly a name, and a schema (kept in meta).
NoName == ""
NoMethod == "-"

PathDef(m, p, k) == [type |-> "path", name |-> NoName, method |-> m, path |-> p, meta |-> k]
NamedDef(t, n, c) == [type |-> t, name |-> n, method |-> NoMethod, path |-> <<>>, meta |-> c]

\* JSON.stringify(def.schema): the whole schema value.
schemaJSON(def) == <<def.method, def.path, def.meta>>

\* ------------------------------------------------------- registry handles
\* What a ledger entry's registry can be: the Registry object an attach call
\* records (it has getRawRegistry and no definitions field), a raw registry
\* (it has definitions and no getRawRegistry), null, or some other object.
RegistryObject(r) == [k |-> "Registry", id |-> r]
RawRegistry(r) == [k |-> "raw", id |-> r]
NullRegistry == [k |-> "null", id |-> "-"]
OtherObject == [k |-> "object", id |-> "-"]

Apps == {"A"}
Routers == {"R"}
RegIds == Apps \cup Routers
\* A second app and a second router, for the behaviours of SpecShared.
AllApps == Apps \cup {"B"}
NestedRouters == {"S"}
AllRouters == Routers \cup NestedRouters
AllRegIds == AllApps \cup AllRouters

Methods == {"get", "post"}
DefPaths == {<<"/", "u">>, <<"u">>}
Metas == {0, 1}
\* Kinds and names of the non-path definitions; NoName is an anonymous one.
DefTypes == {"schema", "parameter"}
DefNames == {"N", NoName}
MountPaths == {<<"/">>, <<"/", "a">>, <<"a">>}
MountValues ==
  {RegistryObject(r) : r \in Routers} \cup {RawRegistry(r) : r \in Routers}
    \cup {NullRegistry, OtherObject}

\* ------------------------------------------------------- argument values
\* A JavaScript value passed to a wrapped method: k is its kind, str its
\* text (a string argument, or the path field of an options object), has
\* tells whether an options object has a path field, id names the rest (the
\* other option fields, the handler, the router).
Str(s) == [k |-> "string", str |-> s, has |-> FALSE, id |-> "-"]
Fn(h) == [k |-> "function", str |-> <<>>, has |-> FALSE, id |-> h]
RouterPlus(r) == [k |-> "routerPlus", str |-> <<>>, has |-> FALSE, id |-> r]
Options(f) == [k |-> "object", str |-> <<>>, has |-> FALSE, id |-> f]
OptionsWithPath(p, f) == [k |-> "object", str |-> p, has |-> TRUE, id |-> f]
RegExpValue == [k |-> "regexp", str |-> <<>>, has |-> FALSE, id |-> "-"]
ArrayValue == [k |-> "array", str |-> <<>>, has |-> FALSE, id |-> "-"]
NullValue == [k |-> "null", str |-> <<>>, has |-> FALSE, id |-> "-"]
\* The middleware createEndpoint returns.
ValidationMiddleware == [k |-> "validation", str |-> <<>>, has |-> FALSE, id |-> "-"]

typeOf(v) ==
  CASE v.k = "string" -> "string"
    [] v.k \in {"function", "routerPlus", "validation"} -> "function"
    [] OTHER -> "object"

\* Inputs of the attach calls of SpecAttach.
AttachRouters == {"R", "S"}
AttachPaths ==
  {<<"/">>, <<"a">>, <<"a", "/">>, <<"/", "a">>, <<"/", "a", "/">>, <<"a", "/", "/">>}
AttachHandlers == {RouterPlus(r) : r \in AttachRouters} \cup {Fn("mw")}
handlerLists(n) == UNION {[1..j -> AttachHandlers] : j \in 1..n}
UseArgLists ==
  handlerLists(MaxHandlers + 1)
    \cup {<<Str(p)>> \o hs : p \in AttachPaths, hs \in handlerLists(MaxHandlers)}
\* Inputs of the attach calls of SpecShared: the router r alone, or a mount
\* path and the router r.
SharedPaths == {<<"/", "b">>, <<"/", "c">>, <<"b", "/", "/">>}
SharedArgLists(r) == {<<RouterPlus(r)>>} \cup {<<Str(p), RouterPlus(r)>> : p \in SharedPaths}

\* Inputs of the wrapped verb calls of SpecDispatch.
DispatchValues ==
  {Str(<<"/", "x">>), Str(<<>>),
   OptionsWithPath(<<"/", "x">>, "S"), OptionsWithPath(<<>>, "S"), Options("S"),
   RegExpValue, ArrayValue, NullValue, Fn("h1"), Fn("h2")}
VerbArgLists == UNION {[1..j -> DispatchValues] : j \in 0..MaxArgs}
NoCall == [method |-> "-", args |-> <<>>]
NoError == [message |-> "none", method |-> "-"]
PriorRoutes == {<<>>, <<[method |-> "get", args |-> <<Str(<<"/", "x">>), Fn("h1")>>]>>}

VARIABLES
  definitions,    \* raw registry id -> its definitions array
  mountRegistry,  \* the process-wide ledger: sequence of {path, registry}
  lastOp,         \* the operation that produced this state, and its target
  nOps,           \* operations performed so far
  documents,      \* what each call of the original generateOpenAPIDocument built from
  forwarded,      \* the last call passed on to the original use method
  routes,         \* the calls the original verb methods of the target received
  events,         \* collaborator calls made by the last wrapped verb call, in order
  call,           \* the last wrapped verb call
  thrown          \* the error the last wrapped verb call raised, if any

compVars == <<definitions, lastOp, documents>>
attachVars == <<forwarded>>
dispatchVars == <<routes, events, call, thrown>>
vars == <<definitions, mountRegistry, lastOp, nOps, documents, forwarded,
          routes, events, call, thrown>>

\* ------------------------------------------------------------ registerMount
\* Mutant: a mount path that lacks the leading slash is not given one.
normalizeMountPathWithoutPrefix(mountPath) ==
  IF endsWithSlash(mountPath) /\ Len(mountPath) > 1
  THEN SubSeq(mountPath, 1, Len(mountPath) - 1)
  ELSE mountPath

normalizeMountPath(mountPath) ==
  LET p1 == IF ~startsWithSlash(mountPath) THEN <<Slash>> \o mountPath ELSE mountPath
  IN IF endsWithSlash(p1) /\ Len(p1) > 1 THEN SubSeq(p1, 1, Len(p1) - 1) ELSE p1

registerMount(ledger, mountPath, registry) ==
  Append(ledger, [path |-> normalizeMountPath(mountPath), registry |-> registry])

\* --------------------------------------------------------------- path join
stripLeadingSlash(routePath) ==
  IF startsWithSlash(routePath) THEN Tail(routePath) ELSE routePath

\* Mutant: the leading slash of the route path is kept.
fullPathKeepingSlash(path, routePath) ==
  IF path = Root THEN <<Slash>> \o stripLeadingSlash(routePath)
  ELSE path \o <<Slash>> \o routePath

fullPath(path, routePath) ==
  IF path = Root THEN <<Slash>> \o stripLeadingSlash(routePath)
  ELSE path \o <<Slash>> \o stripLeadingSlash(routePath)

\* Mutant: definitions are the same only when their contents are.
sameNonPathByContent(baseDef, def) ==
  /\ baseDef.type = def.type
  /\ baseDef.name = def.name
  /\ schemaJSON(baseDef) = schemaJSON(def)

\* The some() test shared by the root branch and both non-path branches.
sameNonPath(baseDef, def) ==
  /\ baseDef.type = def.type
  /\ IF def.name # NoName THEN baseDef.name = def.name
     ELSE schemaJSON(baseDef) = schemaJSON(def)

samePath(baseDef, adjustedDef) ==
  /\ baseDef.type = "path"
  /\ baseDef.path = adjustedDef.path
  /\ baseDef.method = adjustedDef.method

\* if (!baseDefinitions.some(sameNonPath)) baseDefinitions.push(def)
pushUnlessSame(baseDefs, def) ==
  IF \E i \in 1..Len(baseDefs) : sameNonPath(baseDefs[i], def) THEN baseDefs
  ELSE Append(baseDefs, def)

\* if (!baseDefinitions.some(samePath)) baseDefinitions.push(adjustedDef)
pushUnlessSamePath(baseDefs, adjustedDef) ==
  IF \E i \in 1..Len(baseDefs) : samePath(baseDefs[i], adjustedDef) THEN baseDefs
  ELSE Append(baseDefs, adjustedDef)

\* -------------------------------------------------------- combineRegistries
combineDef(baseDefs, path, def) ==
  IF path = Root THEN pushUnlessSame(baseDefs, def)
  ELSE IF def.type = "path"
       THEN pushUnlessSamePath(baseDefs, [def EXCEPT !.path = fullPath(path, def.path)])
       ELSE pushUnlessSame(baseDefs, def)

RECURSIVE combineDefs(_, _, _, _)
combineDefs(baseDefs, path, srcDefs, i) ==
  IF i > Len(srcDefs) THEN baseDefs
  ELSE combineDefs(combineDef(baseDefs, path, srcDefs[i]), path, srcDefs, i + 1)

\* !registry || !registry.definitions
combineSkips(registry) == registry.k # "raw"

\* Mutant: the rewritten path is written to the mounted registry's own
\* definition, which is then pushed, and not to a copy of it.
rewrittenInPlace(srcDefs, path) ==
  [j \in 1..Len(srcDefs) |->
     IF srcDefs[j].type = "path" /\ path # Root
     THEN [srcDefs[j] EXCEPT !.path = fullPath(path, @)]
     ELSE srcDefs[j]]
RECURSIVE combineEntriesRewritingInPlace(_, _, _, _)
combineEntriesRewritingInPlace(defs, base, ledger, i) ==
  IF i > Len(ledger) THEN defs
  ELSE LET e == ledger[i]
           composed == [defs EXCEPT ![base] =
                          combineDefs(defs[base], e.path, defs[e.registry.id], 1)]
           next == IF combineSkips(e.registry) THEN defs
                   ELSE [composed EXCEPT ![e.registry.id] = rewrittenInPlace(@, e.path)]
       IN combineEntriesRewritingInPlace(next, base, ledger, i + 1)

RECURSIVE combineEntries(_, _, _, _)
combineEntries(defs, base, ledger, i) ==
  IF i > Len(ledger) THEN defs
  ELSE LET e == ledger[i]
           next == IF combineSkips(e.registry) THEN defs
                   ELSE [defs EXCEPT ![base] =
                           combineDefs(defs[base], e.path, defs[e.registry.id], 1)]
       IN combineEntries(next, base, ledger, i + 1)

combineRegistries(defs, base, ledger) == combineEntries(defs, base, ledger, 1)

\* ---------------------------------- generateOpenAPIDocument (expressPlus)
generateDef(baseDefs, path, def) ==
  IF def.type = "path"
  THEN Append(baseDefs, [def EXCEPT !.path = fullPath(path, def.path)])
  ELSE pushUnlessSame(baseDefs, def)

RECURSIVE generateDefs(_, _, _, _)
generateDefs(baseDefs, path, srcDefs, i) ==
  IF i > Len(srcDefs) THEN baseDefs
  ELSE generateDefs(generateDef(baseDefs, path, srcDefs[i]), path, srcDefs, i + 1)

\* !mountedRegistry, or the raw registry has no definitions
generateSkips(registry) == registry.k \notin {"Registry", "raw"}

\* Mutant: an entry without definitions ends the loop over the ledger.
RECURSIVE generateEntriesStopAtMalformed(_, _, _, _)
generateEntriesStopAtMalformed(defs, base, ledger, i) ==
  IF i > Len(ledger) \/ generateSkips(ledger[i].registry) THEN defs
  ELSE generateEntriesStopAtMalformed(
         [defs EXCEPT ![base] =
            generateDefs(defs[base], ledger[i].path, defs[ledger[i].registry.id], 1)],
         base, ledger, i + 1)

\* Mutant: the ledger is read from its last entry to its first.
RECURSIVE generateEntriesLastFirst(_, _, _, _)
generateEntriesLastFirst(defs, base, ledger, i) ==
  IF i > Len(ledger) THEN defs
  ELSE LET e == ledger[Len(ledger) + 1 - i]
           next == IF generateSkips(e.registry) THEN defs
                   ELSE [defs EXCEPT ![base] =
                           generateDefs(defs[base], e.path, defs[e.registry.id], 1)]
       IN generateEntriesLastFirst(next, base, ledger, i + 1)

RECURSIVE generateEntries(_, _, _, _)
generateEntries(defs, base, ledger, i) ==
  IF i > Len(ledger) THEN defs
  ELSE LET e == ledger[i]
           next == IF generateSkips(e.registry) THEN defs
                   ELSE [defs EXCEPT ![base] =
                           generateDefs(defs[base], e.path, defs[e.registry.id], 1)]
       IN generateEntries(next, base, ledger, i + 1)

\* Mutant: every mounted registry is itself composed with the ledger before
\* the base is.
RECURSIVE composeMountedFirst(_, _, _)
composeMountedFirst(defs, ledger, n) ==
  IF n > Len(ledger) THEN defs
  ELSE composeMountedFirst(IF generateSkips(ledger[n].registry) THEN defs
                           ELSE generateEntries(defs, ledger[n].registry.id, ledger, 1),
                           ledger, n + 1)
generateOpenAPIDocumentNested(defs, base, ledger) ==
  generateEntries(composeMountedFirst(defs, ledger, 1), base, ledger, 1)

generateOpenAPIDocument(defs, base, ledger) == generateEntries(defs, base, ledger, 1)

\* ------------------------------------------------------------------ actions
Init ==
  /\ definitions = [r \in AllRegIds |-> <<>>]
  /\ mountRegistry = <<>>
  /\ lastOp = [op |-> "init", on |-> "-"]
  /\ nOps = 0
  /\ documents = <<>>
  /\ forwarded = [args |-> <<>>, ledgerLength |-> 0]
  /\ routes = <<>>
  /\ events = <<>>
  /\ call = NoCall
  /\ thrown = NoError

\* Endpoint registration: createEndpoint adds one path definition to the
\* registry of the routing target; a registry never holds two path
\* definitions with the same (method, path) of its own making.
RegisterPath(r, m, p, k) ==
  /\ nOps < MaxOps
  /\ ~\E i \in 1..Len(definitions[r]) : samePath(definitions[r][i], PathDef(m, p, k))
  /\ definitions' = [definitions EXCEPT ![r] = Append(@, PathDef(m, p, k))]
  /\ lastOp' = [op |-> "register", on |-> r]
  /\ nOps' = nOps + 1
  /\ UNCHANGED <<mountRegistry, documents, attachVars, dispatchVars>>

\* Registration of a schema, parameter or other non-path definition: the
\* registry gains one definition; within one registry no two definitions of
\* the same kind share a name.
RegisterDefinition(r, t, n, c) ==
  /\ nOps < MaxOps
  /\ ~\E i \in 1..Len(definitions[r]) : sameNonPath(definitions[r][i], NamedDef(t, n, c))
  /\ definitions' = [definitions EXCEPT ![r] = Append(@, NamedDef(t, n, c))]
  /\ lastOp' = [op |-> "define", on |-> r]
  /\ nOps' = nOps + 1
  /\ UNCHANGED <<mountRegistry, documents, attachVars, dispatchVars>>

RegisterMount(mountPath, registry) ==
  /\ nOps < MaxOps
  /\ mountRegistry' = registerMount(mountRegistry, mountPath, registry)
  /\ lastOp' = [op |-> "mount", on |-> "-"]
  /\ nOps' = nOps + 1
  /\ UNCHANGED <<definitions, documents, attachVars, dispatchVars>>

CombineRegistries(base) ==
  /\ nOps < MaxOps
  /\ definitions' = combineRegistries(definitions, base, mountRegistry)
  /\ lastOp' = [op |-> "combine", on |-> base]
  /\ nOps' = nOps + 1
  /\ UNCHANGED <<mountRegistry, documents, attachVars, dispatchVars>>

\* What originalGenerateOpenAPIDocument.call(this, config) builds a document
\* from: the definitions of the base at the call, the ledger being as long
\* as it is.
builtFrom(baseDefs, ledger) == [from |-> baseDefs, ledgerLength |-> Len(ledger)]

\* Mutant: the original method is called before the mounted registries are
\* copied into the base.
GenerateOpenAPIDocumentOriginalFirst(app) ==
  /\ nOps < MaxOps
  /\ documents' = Append(documents, builtFrom(definitions[app], mountRegistry))
  /\ definitions' = generateOpenAPIDocument(definitions, app, mountRegistry)
  /\ lastOp' = [op |-> "generate", on |-> app]
  /\ nOps' = nOps + 1
  /\ UNCHANGED <<mountRegistry, attachVars, dispatchVars>>

\* The override: the mounted registries are copied into the base, then
\* originalGenerateOpenAPIDocument.call(this, config) builds from the base.
GenerateOpenAPIDocument(app) ==
  /\ nOps < MaxOps
  /\ definitions' = generateOpenAPIDocument(definitions, app, mountRegistry)
  /\ documents' = Append(documents, builtFrom(definitions'[app], mountRegistry))
  /\ lastOp' = [op |-> "generate", on |-> app]
  /\ nOps' = nOps + 1
  /\ UNCHANGED <<mountRegistry, attachVars, dispatchVars>>

Next ==
  \/ \E r \in RegIds, m \in Methods, p \in DefPaths, k \in Metas : RegisterPath(r, m, p, k)
  \/ \E mp \in MountPaths, rv \in MountValues : RegisterMount(mp, rv)
  \/ \E b \in RegIds : CombineRegistries(b)
  \/ \E a \in Apps : GenerateOpenAPIDocument(a)

Spec == Init /\ [][Next]_vars

\* Composition of registries that hold non-path definitions.
NextNamed ==
  \/ \E r \in RegIds, t \in DefTypes, n \in DefNames, c \in Metas : RegisterDefinition(r, t, n, c)
  \/ \E mp \in MountPaths, rv \in MountValues : RegisterMount(mp, rv)
  \/ \E b \in RegIds : CombineRegistries(b)
  \/ \E a \in Apps : GenerateOpenAPIDocument(a)

SpecNamed == Init /\ [][NextNamed]_vars

\* ------------------------------------------------- use overrides (attach)
\* middleware && middleware._isRouterPlus && middleware._registry
isEnhanced(v) == v.k = "routerPlus"

\* The ledger after the two cases of a use override (both overrides run the
\* same two cases); the call is then passed to the original use method.
useRecords(ledger, args) ==
  LET afterCase1 ==
        IF Len(args) >= 2
        THEN LET mountPath == IF typeOf(args[1]) = "string" THEN args[1].str ELSE Root
                 middleware == args[2]
             IN IF isEnhanced(middleware)
                THEN registerMount(ledger, mountPath, RegistryObject(middleware.id))
                ELSE ledger
        ELSE ledger
  IN IF Len(args) = 1 /\ isEnhanced(args[1])
     THEN registerMount(afterCase1, Root, RegistryObject(args[1].id))
     ELSE afterCase1

\* app.use of expressPlus
AppUse(app, args) ==
  /\ nOps < MaxUses
  /\ mountRegistry' = useRecords(mountRegistry, args)
  /\ forwarded' = [args |-> args, ledgerLength |-> Len(mountRegistry')]
  /\ nOps' = nOps + 1
  /\ UNCHANGED <<compVars, dispatchVars>>

\* routerInstance.use of routerPlus
RouterUse(router, args) ==
  /\ nOps < MaxUses
  /\ mountRegistry' = useRecords(mountRegistry, args)
  /\ forwarded' = [args |-> args, ledgerLength |-> Len(mountRegistry')]
  /\ nOps' = nOps + 1
  /\ UNCHANGED <<compVars, dispatchVars>>

NextAttach ==
  \/ \E a \in Apps, args \in UseArgLists : AppUse(a, args)
  \/ \E r \in AttachRouters, args \in UseArgLists : RouterUse(r, args)

SpecAttach == Init /\ [][NextAttach]_vars

\* Two apps and two routers share the one ledger: the routers of Routers
\* are attached to the apps of Apps and to nothing else, the routers of
\* NestedRouters are attached to the routers of Routers and to nothing else,
\* the routers register endpoints, and every app generates its document.
NextShared ==
  \/ \E a \in Apps, r \in Routers : \E args \in SharedArgLists(r) : AppUse(a, args)
  \/ \E r \in Routers, n \in NestedRouters : \E args \in SharedArgLists(n) : RouterUse(r, args)
  \/ \E r \in AllRouters, m \in Methods, p \in DefPaths : RegisterPath(r, m, p, 0)
  \/ \E a \in AllApps : CombineRegistries(a)
  \/ \E a \in AllApps : GenerateOpenAPIDocument(a)

SpecShared == Init /\ [][NextShared]_vars

\* ------------------------------------------------------ enhanceHttpMethods
\* Mutant: the instanceof RegExp test is left out.
isPlainObjectWithoutRegExpTest(v) ==
  typeOf(v) = "object" /\ v.k # "null" /\ v.k # "array"

isPlainObject(v) ==
  typeOf(v) = "object" /\ v.k # "null" /\ v.k # "array" /\ v.k # "regexp"

isOptionsFirst(args) == Len(args) > 1 /\ isPlainObject(args[1])

isPathOptions(args) ==
  Len(args) > 2 /\ typeOf(args[1]) = "string" /\ isPlainObject(args[2])

\* Mutant: the path check is left out.
missingPathNeverChecked(opts) == FALSE

\* !opts.path: the field is absent, or the empty string
missingPath(opts) == ~opts.has \/ opts.str = <<>>

\* Mutant: the validation middleware is put after the first handler.
optionsFirstCallHandlerFirst(args) ==
  <<Str(args[1].str), args[2], ValidationMiddleware>> \o SubSeq(args, 3, Len(args))

\* originalMethod.call(target, opts.path, validationMiddleware, handler, ...rest)
optionsFirstCall(args) == <<Str(args[1].str), ValidationMiddleware>> \o Tail(args)

\* Mutant: the options object is forwarded in place of the middleware.
pathOptionsCallWithoutValidation(args) == args

\* originalMethod.call(target, path, validationMiddleware, handler, ...rest)
pathOptionsCall(args) == <<args[1], ValidationMiddleware>> \o SubSeq(args, 3, Len(args))

\* Mutant: the factory is called without the options.
createEndpointEventWithoutOptions(method, path, opts) ==
  [fn |-> "createEndpoint", method |-> method, args |-> <<Str(path)>>]

createEndpointEvent(method, path, opts) ==
  [fn |-> "createEndpoint", method |-> method, args |-> <<Str(path), opts>>]
originalMethodEvent(method, args) ==
  [fn |-> "originalMethod", method |-> method, args |-> args]

\* The wrapped method: what it throws, which collaborators it calls and what
\* the target has registered afterwards.
enhancedMethod(registered, method, args) ==
  IF isOptionsFirst(args)
  THEN IF missingPath(args[1])
       THEN [routes |-> registered, events |-> <<>>,
             thrown |-> [message |-> "Path is required", method |-> method]]
       ELSE [routes |-> Append(registered, [method |-> method, args |-> optionsFirstCall(args)]),
             events |-> <<createEndpointEvent(method, args[1].str, args[1]),
                          originalMethodEvent(method, optionsFirstCall(args))>>,
             thrown |-> NoError]
  ELSE IF isPathOptions(args)
  THEN [routes |-> Append(registered, [method |-> method, args |-> pathOptionsCall(args)]),
        events |-> <<createEndpointEvent(method, args[1].str, args[2]),
                     originalMethodEvent(method, pathOptionsCall(args))>>,
        thrown |-> NoError]
  ELSE [routes |-> Append(registered, [method |-> method, args |-> args]),
        events |-> <<originalMethodEvent(method, args)>>,
        thrown |-> NoError]

VerbCall(method, args) ==
  /\ LET r == enhancedMethod(routes, method, args)
     IN /\ routes' = r.routes
        /\ events' = r.events
        /\ thrown' = r.thrown
  /\ call' = [method |-> method, args |-> args]
  /\ nOps' = nOps + 1
  /\ UNCHANGED <<compVars, mountRegistry, attachVars>>

\* The target may already hold registrations when the wrapped call is made.
InitDispatch ==
  /\ definitions = [r \in AllRegIds |-> <<>>]
  /\ mountRegistry = <<>>
  /\ lastOp = [op |-> "init", on |-> "-"]
  /\ nOps = 0
  /\ documents = <<>>
  /\ forwarded = [args |-> <<>>, ledgerLength |-> 0]
  /\ routes \in PriorRoutes
  /\ events = <<>>
  /\ call = NoCall
  /\ thrown = NoError

\* One wrapped call per behaviour: its effect on the target depends on the
\* earlier calls through the target's registrations only.
NextDispatch ==
  /\ call = NoCall
  /\ \E m \in Methods, args \in VerbArgLists : VerbCall(m, args)

SpecDispatch == InitDispatch /\ [][NextDispatch]_vars

\* =================================================================== claims
\* Helpers of the claims: stated on sequences of characters, independently
\* of the operators above.
isPath(d) == d.type = "path"
pathIndexes(ds) == {i \in 1..Len(ds) : isPath(ds[i])}
samePair(d1, d2) == d1.method = d2.method /\ d1.path = d2.path
noDuplicatePairs(ds) ==
  \A i, j \in pathIndexes(ds) : i < j => ~samePair(ds[i], ds[j])
withoutLeadingSlash(p) == IF p # <<>> /\ Head(p) = "/" THEN SubSeq(p, 2, Len(p)) ELSE p
joined(m, p) == m \o <<"/">> \o withoutLeadingSlash(p)
isComposition(op) == op.op \in {"combine", "generate"}
\* The ledger entries a composition of the given kind reads definitions from.
composedBy(op, e) ==
  IF op.op = "combine" THEN e.registry.k = "raw" ELSE e.registry.k \in {"Registry", "raw"}
MountA == <<"/", "a">>

\* C1: after any sequence of registrations, mounts and compositions, no
\* registry's definition collection holds two path definitions with the same
\* (method, path) pair; registrations alone never create such a pair.
C1_NoDuplicatePathPairs == \A r \in RegIds : noDuplicatePairs(definitions[r])

\* C2: composition is idempotent.  (a) A composition that directly follows a
\* composition of the same kind on the same base, with the ledger unchanged,
\* leaves the base's definition count unchanged.  (b) A composition over a
\* ledger whose last entry repeats an earlier entry leaves the base with as
\* many definitions as the composition over the ledger without that entry.
C2_CompositionIdempotent ==
  [][ /\ (isComposition(lastOp) /\ lastOp' = lastOp /\ mountRegistry' = mountRegistry)
           => Len(definitions'[lastOp.on]) = Len(definitions[lastOp.on])
      /\ (/\ isComposition(lastOp')
          /\ Len(mountRegistry) >= 2
          /\ \E i \in 1..(Len(mountRegistry) - 1) : mountRegistry[i] = mountRegistry[Len(mountRegistry)])
           => Len(definitions'[lastOp'.on]) =
                Len((IF lastOp'.op = "combine"
                     THEN combineRegistries(definitions, lastOp'.on,
                                            SubSeq(mountRegistry, 1, Len(mountRegistry) - 1))
                     ELSE generateOpenAPIDocument(definitions, lastOp'.on,
                                            SubSeq(mountRegistry, 1, Len(mountRegistry) - 1)))[lastOp'.on])
    ]_vars

\* C3: with a single ledger entry at "/a" holding a sub-registry (the Registry
\* object an attach call records, or the raw registry) other than the base,
\* and with the (method, path) pairs of the base and of the prefixed
\* sub-registry pairwise disjoint, a composition leaves the base with
\* |base| + |sub| path definitions, each sub path appearing exactly once
\* under "/a" with its method.
C3_DisjointCompositionAddsAll ==
  [][ LET b == lastOp'.on
          e == mountRegistry[1]
          sub == definitions[e.registry.id]
          before == definitions[b]
          after == definitions'[b]
      IN (/\ isComposition(lastOp')
          /\ Len(mountRegistry) = 1
          /\ e.path = MountA
          /\ e.registry.k \in {"Registry", "raw"}
          /\ e.registry.id # b
          /\ noDuplicatePairs(before)
          /\ \A i, j \in pathIndexes(sub) :
               i < j => ~(sub[i].method = sub[j].method
                          /\ joined(MountA, sub[i].path) = joined(MountA, sub[j].path))
          /\ \A i \in pathIndexes(before), j \in pathIndexes(sub) :
               ~(before[i].method = sub[j].method
                 /\ before[i].path = joined(MountA, sub[j].path)))
         => /\ Cardinality(pathIndexes(after)) =
                 Cardinality(pathIndexes(before)) + Cardinality(pathIndexes(sub))
            /\ \A j \in pathIndexes(sub) :
                 Cardinality({i \in pathIndexes(after) :
                                /\ after[i].method = sub[j].method
                                /\ after[i].path = joined(MountA, sub[j].path)}) = 1
    ]_vars

\* C4: in a composition, for every ledger entry read whose mount path m is
\* not "/" and whose registry is not the base, every path definition p of
\* that registry is present in the base afterwards as m + "/" + (p without
\* one leading "/") with the same method; and every path definition the
\* composition appends comes from some entry read, under that join when the
\* entry's mount path is not "/".
C4_PathJoin ==
  [][ LET b == lastOp'.on
          before == definitions[b]
          after == definitions'[b]
      IN isComposition(lastOp') =>
           /\ \A n \in 1..Len(mountRegistry) :
                LET e == mountRegistry[n] IN
                (composedBy(lastOp', e) /\ e.path # Root /\ e.registry.id # b) =>
                   \A j \in pathIndexes(definitions[e.registry.id]) :
                     LET d == definitions[e.registry.id][j] IN
                     \E i \in pathIndexes(after) :
                        /\ after[i].method = d.method
                        /\ after[i].path = joined(e.path, d.path)
           /\ \A i \in pathIndexes(after) : i > Len(before) =>
                \E n \in 1..Len(mountRegistry) :
                  LET e == mountRegistry[n] IN
                  /\ composedBy(lastOp', e)
                  /\ \E j \in pathIndexes(definitions'[e.registry.id]) :
                       LET d == definitions'[e.registry.id][j] IN
                       /\ after[i].method = d.method
                       /\ e.path # Root => after[i].path = joined(e.path, d.path)
    ]_vars

\* C4 witness: a composition has written sub-path "u" and sub-path "/u" of
\* the router mounted at "/a" into the app's registry as "/a/u".
C4_Witness ==
  /\ isComposition(lastOp) /\ lastOp.on = "A"
  /\ \E n \in 1..Len(mountRegistry) :
       mountRegistry[n] = [path |-> MountA, registry |-> RegistryObject("R")]
  /\ \E j \in pathIndexes(definitions["R"]) : definitions["R"][j].path = <<"u">>
  /\ \E j \in pathIndexes(definitions["R"]) : definitions["R"][j].path = <<"/", "u">>
  /\ Cardinality({i \in pathIndexes(definitions["A"]) :
                    definitions["A"][i].path = <<"/", "a", "/", "u">>}) >= 2

\* ------------------------------------------------------------ SpecAttach
\* C5: every ledger entry's path begins with "/" and does not end with "/"
\* unless it is exactly "/".
C5_LedgerPathsNormalized ==
  \A n \in 1..Len(mountRegistry) :
    LET p == mountRegistry[n].path
    IN /\ p # <<>>
       /\ Head(p) = "/"
       /\ (p[Len(p)] = "/" => p = <<"/">>)

\* C10: an attach call appends, for every attached value carrying both
\* markers and whatever its position in the argument list, exactly one ledger
\* entry holding that value's registry, at the explicit path of the call
\* (as given, or normalized) or "/" when the call gives none; the entries are
\* in the ledger when the call is forwarded, and it is forwarded unchanged.
C10_AttachRecordsEveryEnhancedValue ==
  [][ LET args == forwarded'.args
          explicit == IF args[1].k = "string" THEN args[1].str ELSE <<"/">>
          enhanced == SelectSeq(args, LAMBDA v : v.k = "routerPlus")
          old == Len(mountRegistry)
      IN /\ Len(mountRegistry') = old + Len(enhanced)
         /\ SubSeq(mountRegistry', 1, old) = mountRegistry
         /\ \A i \in 1..Len(enhanced) :
              /\ mountRegistry'[old + i].registry = RegistryObject(enhanced[i].id)
              /\ mountRegistry'[old + i].path \in {explicit, normalizeMountPath(explicit)}
         /\ forwarded'.ledgerLength = Len(mountRegistry')
    ]_vars

\* ---------------------------------------------------------- SpecDispatch
\* The call shapes, stated on the kinds of the arguments.
plainObjectFirst(c) == Len(c.args) >= 2 /\ c.args[1].k = "object"
pathThenPlainObject(c) ==
  Len(c.args) >= 3 /\ c.args[1].k = "string" /\ c.args[2].k = "object"
registrationsOf(es) == SelectSeq(es, LAMBDA e : e.fn = "originalMethod")
factoryCallsOf(es) == SelectSeq(es, LAMBDA e : e.fn = "createEndpoint")

\* C6: an options-first call (at least 2 arguments, argument 0 a plain keyed
\* object) whose options carry a path (a non-empty string; the code takes
\* the empty string for a missing path) makes exactly one call to the
\* underlying method, with (opts.path, validationMiddleware, handler,
\* ...rest): the middleware right before the caller's first handler, the
\* caller's arguments after argument 0 in their order.
C6_OptionsFirstRegistersOnce ==
  [][ (plainObjectFirst(call') /\ call'.args[1].has /\ call'.args[1].str # <<>>) =>
        LET a == call'.args
            expected == [method |-> call'.method,
                         args |-> <<Str(a[1].str), ValidationMiddleware>>
                                    \o SubSeq(a, 2, Len(a))]
        IN /\ thrown' = NoError
           /\ routes' = Append(routes, expected)
           /\ Len(registrationsOf(events')) = 1
           /\ registrationsOf(events')[1].args = expected.args
           /\ registrationsOf(events')[1].args[2] = ValidationMiddleware
           /\ registrationsOf(events')[1].args[3] = a[2]
    ]_vars

\* C6 witness: post({path: "/x", ...S}, h1, h2) has returned and the target,
\* which held one registration, now holds ("/x", validation, h1, h2) as well.
C6_Witness ==
  /\ call = [method |-> "post",
             args |-> <<OptionsWithPath(<<"/", "x">>, "S"), Fn("h1"), Fn("h2")>>]
  /\ thrown = NoError
  /\ Len(routes) = 2
  /\ routes[2].args = <<Str(<<"/", "x">>), ValidationMiddleware, Fn("h1"), Fn("h2")>>

\* C7: an options-first call whose options object has no path (no path
\* field, or the empty string) raises an error naming the method, without
\* having invoked createEndpoint or the underlying method; the target's
\* registrations are unchanged.
C7_MissingPathThrowsFirst ==
  [][ (plainObjectFirst(call') /\ (~call'.args[1].has \/ call'.args[1].str = <<>>)) =>
        /\ thrown' # NoError
        /\ thrown'.method = call'.method
        /\ events' = <<>>
        /\ routes' = routes
    ]_vars

\* C7 witness: post({...S}, h1) has thrown, naming post, on a target that
\* holds an earlier registration.
C7_Witness ==
  /\ call = [method |-> "post", args |-> <<Options("S"), Fn("h1")>>]
  /\ thrown.method = "post"
  /\ events = <<>>
  /\ Len(routes) = 1

\* C8: a call that is neither options-first nor path+options, including every
\* call whose argument 0 is a RegExp or an array, every 1-argument call and
\* every string path followed by handlers only, forwards its argument list
\* unchanged to the underlying method exactly once, never calls
\* createEndpoint and raises nothing.
C8_PassthroughForwardsUnchanged ==
  [][ (\/ (call' # NoCall /\ ~plainObjectFirst(call') /\ ~pathThenPlainObject(call'))
       \/ (Len(call'.args) >= 1 /\ call'.args[1].k \in {"regexp", "array"})
       \/ Len(call'.args) = 1
       \/ (/\ Len(call'.args) >= 2
           /\ call'.args[1].k = "string"
           /\ \A i \in 2..Len(call'.args) : call'.args[i].k = "function")) =>
        /\ thrown' = NoError
        /\ routes' = Append(routes, [method |-> call'.method, args |-> call'.args])
        /\ events' = <<[fn |-> "originalMethod", method |-> call'.method,
                        args |-> call'.args]>>
        /\ factoryCallsOf(events') = <<>>
    ]_vars

\* C8 witness: get(RegExp, h1, h2) was forwarded as it is.
C8_Witness ==
  /\ call = [method |-> "get", args |-> <<RegExpValue, Fn("h1"), Fn("h2")>>]
  /\ routes # <<>>
  /\ routes[Len(routes)] = call
  /\ events = <<[fn |-> "originalMethod", method |-> "get", args |-> call.args]>>

\* The options-first call written for the path+options call m(x, S, ...hs).
optionsFirstTwin(c) ==
  [method |-> c.method,
   args |-> <<OptionsWithPath(c.args[1].str, c.args[2].id)>> \o SubSeq(c.args, 3, Len(c.args))]
\* What both shapes are to register for m(x, S, ...hs).
canonicalRegistration(c) ==
  [method |-> c.method,
   args |-> <<Str(c.args[1].str), ValidationMiddleware>> \o SubSeq(c.args, 3, Len(c.args))]
writtenPathOptions(c) ==
  /\ Len(c.args) >= 2
  /\ c.args[1].k = "string"
  /\ c.args[2].k = "object" /\ ~c.args[2].has
  /\ \A i \in 3..Len(c.args) : c.args[i].k = "function"

\* C9 as stated: for every path x, options S and handler list hs (the empty
\* list and the empty path included), m(x, S, ...hs) and m({path: x, ...S},
\* ...hs) both register (x, validationMiddleware, ...hs).
C9_ShapesEquivalentForAll ==
  [][ writtenPathOptions(call') =>
        /\ routes' = Append(routes, canonicalRegistration(call'))
        /\ enhancedMethod(routes, call'.method, optionsFirstTwin(call').args).routes = routes'
    ]_vars

\* C9 amended: for every non-empty path x, options S and handler list hs of
\* at least one handler, m(x, S, ...hs) and m({path: x, ...S}, ...hs) both
\* register (x, validationMiddleware, ...hs) and raise nothing.
C9_ShapesEquivalent ==
  [][ (writtenPathOptions(call') /\ call'.args[1].str # <<>> /\ Len(call'.args) >= 3) =>
        /\ thrown' = NoError
        /\ routes' = Append(routes, canonicalRegistration(call'))
        /\ enhancedMethod(routes, call'.method, optionsFirstTwin(call').args).routes = routes'
        /\ enhancedMethod(routes, call'.method, optionsFirstTwin(call').args).thrown = NoError
    ]_vars

\* C9 witness: get("/x", S, h2, h1) has registered ("/x", validation, h2, h1).
C9_Witness ==
  /\ call = [method |-> "get",
             args |-> <<Str(<<"/", "x">>), Options("S"), Fn("h2"), Fn("h1")>>]
  /\ routes # <<>>
  /\ routes[Len(routes)].args = <<Str(<<"/", "x">>), ValidationMiddleware, Fn("h2"), Fn("h1")>>

\* ---------------------------------------------------------------- C11
isNamed(d) == d.type # "path" /\ d.name # NoName
sameKindAndName(d1, d2) == d1.type = d2.type /\ d1.name = d2.name
entriesLike(ds, d) == {i \in 1..Len(ds) : sameKindAndName(ds[i], d)}
\* The mounted registries a composition step reads definitions from.
composedRegistries(op) ==
  {mountRegistry[n].registry.id : n \in {i \in 1..Len(mountRegistry) :
                                           composedBy(op, mountRegistry[i])}}

\* C11: a composition never adds a second non-path definition of a kind and
\* name the base already holds: the base keeps exactly the entries it had
\* for that kind and name, at the same place and with the same content,
\* whatever the content of the mounted definition of that kind and name.
C11_NamedDefinitionFirstWins ==
  [][ LET b == lastOp'.on
          before == definitions[b]
          after == definitions'[b]
      IN isComposition(lastOp') =>
           \A i \in 1..Len(before) :
             isNamed(before[i]) =>
               /\ Len(after) >= i
               /\ after[i] = before[i]
               /\ entriesLike(after, before[i]) = entriesLike(before, before[i])
    ]_vars

\* C11 witness: a composition has just read a mounted registry whose
\* definition has the kind and name of a base definition and another
\* content, and the base holds that kind and name once, with its own content.
C11_Witness ==
  /\ isComposition(lastOp)
  /\ lastOp.on = "A"
  /\ \E r \in composedRegistries(lastOp) \ {"A"} :
       \E j \in 1..Len(definitions[r]), i \in 1..Len(definitions["A"]) :
         /\ isNamed(definitions[r][j])
         /\ sameKindAndName(definitions["A"][i], definitions[r][j])
         /\ definitions["A"][i].meta # definitions[r][j].meta
         /\ entriesLike(definitions["A"], definitions[r][j]) = {i}

\* ---------------------------------------------------------------- C12
\* The ledger entries a composition step reads definitions from.
composedEntries(op) == {n \in 1..Len(mountRegistry) : composedBy(op, mountRegistry[n])}
appendedIndexes(before, after) == (Len(before) + 1)..Len(after)

\* C12: when every entry a composition reads is mounted at "/", every path
\* definition the composition adds to the base is a path definition of one
\* of the mounted registries, with that definition's own path string.
C12_RootMountKeepsPath ==
  [][ LET b == lastOp'.on
          before == definitions[b]
          after == definitions'[b]
      IN (/\ isComposition(lastOp')
          /\ \A n \in composedEntries(lastOp') : mountRegistry[n].path = Root)
         => \A i \in appendedIndexes(before, after) :
              isPath(after[i]) =>
                \E n \in composedEntries(lastOp') :
                  \E j \in 1..Len(definitions[mountRegistry[n].registry.id]) :
                    after[i] = definitions[mountRegistry[n].registry.id][j]
    ]_vars

\* ---------------------------------------------------------------- C13
hasDoubleSlash(p) == \E i \in 1..(Len(p) - 1) : p[i] = Slash /\ p[i + 1] = Slash

\* C13: whatever mount path strings the attach calls were given, every path
\* a composition has inserted into an app's registry starts with exactly one
\* "/" and contains no "//" (the apps of SpecShared register no endpoint of
\* their own, and no registered path contains "//").
C13_NoDoubleSlash ==
  \A a \in AllApps :
    \A i \in 1..Len(definitions[a]) :
      isPath(definitions[a][i]) =>
        /\ startsWithSlash(definitions[a][i].path)
        /\ ~hasDoubleSlash(definitions[a][i].path)

\* ---------------------------------------------------------------- C14
\* The path under which document generation inserts the path p of a
\* registry mounted at m.
generatedPath(m, p) == IF m = Root THEN <<Slash>> \o withoutLeadingSlash(p) ELSE joined(m, p)
\* The definitions ds hold the contribution of the path definition d of a
\* registry mounted at m.
holdsContribution(ds, m, d) ==
  \E i \in 1..Len(ds) :
    /\ isPath(ds[i])
    /\ ds[i].method = d.method
    /\ ds[i].path = generatedPath(m, d.path)
\* The definitions ds hold the contributions of the ledger entry e.
holdsEntry(ds, e) ==
  \A j \in 1..Len(definitions[e.registry.id]) :
    isPath(definitions[e.registry.id][j]) =>
      holdsContribution(ds, e.path, definitions[e.registry.id][j])

\* C14: every document generation makes one call of the original
\* document-building method, and what that call builds from holds the
\* contributions of every entry the ledger has at the generation.
C14_CompositionBeforeDocument ==
  [][ (lastOp'.op = "generate" /\ nOps' # nOps /\ UNCHANGED attachVars) =>
        /\ Len(documents') = Len(documents) + 1
        /\ documents'[Len(documents')].ledgerLength = Len(mountRegistry)
        /\ \A n \in 1..Len(mountRegistry) :
             holdsEntry(documents'[Len(documents')].from, mountRegistry[n])
    ]_vars

\* C14 witness: two documents have been built, the ledger got an entry
\* between them, and the second one is built from that entry's
\* contribution, which the first one was not.
C14_Witness ==
  /\ lastOp.op = "generate"
  /\ Len(documents) = 2
  /\ documents[1].ledgerLength < documents[2].ledgerLength
  /\ \E n \in (documents[1].ledgerLength + 1)..documents[2].ledgerLength :
       \E j \in 1..Len(definitions[mountRegistry[n].registry.id]) :
         LET d == definitions[mountRegistry[n].registry.id][j]
         IN /\ holdsContribution(documents[2].from, mountRegistry[n].path, d)
            /\ ~holdsContribution(documents[1].from, mountRegistry[n].path, d)

\* ---------------------------------------------------------------- C15
factoryCall(method, path, opts) ==
  [fn |-> "createEndpoint", method |-> method, args |-> <<path, opts>>]
\* The collaborator calls es are one call of the factory, as given, and
\* then one call of the underlying method.
factoryThenRegistration(es, expected) ==
  /\ Len(es) = 2
  /\ es[1] = expected
  /\ es[2].fn = "originalMethod"
  /\ Len(factoryCallsOf(es)) = 1

\* C15: an options-first call whose options carry a path calls
\* createEndpoint once, with (method, opts.path, opts), and then the
\* underlying method; a path+options call calls it once, with (method,
\* args[0], args[1]), and then the underlying method; every other call, a
\* passthrough or an options-first call without a path, never calls it.
C15_FactoryCalledOnceBeforeRegistration ==
  [][ LET c == call'
          a == c.args
      IN IF plainObjectFirst(c)
         THEN IF a[1].has /\ a[1].str # <<>>
              THEN factoryThenRegistration(events', factoryCall(c.method, Str(a[1].str), a[1]))
              ELSE factoryCallsOf(events') = <<>> /\ thrown' # NoError
         ELSE IF pathThenPlainObject(c)
              THEN factoryThenRegistration(events', factoryCall(c.method, a[1], a[2]))
              ELSE factoryCallsOf(events') = <<>> /\ Len(registrationsOf(events')) = 1
    ]_vars

\* C15 witness: get("/x", {...S}, h1) has returned after one call of
\* createEndpoint("get", "/x", {...S}) followed by the registration.
C15_Witness ==
  /\ call = [method |-> "get", args |-> <<Str(<<"/", "x">>), Options("S"), Fn("h1")>>]
  /\ thrown = NoError
  /\ events[1] = factoryCall("get", Str(<<"/", "x">>), Options("S"))
  /\ events[2].fn = "originalMethod"
  /\ Len(events) = 2

\* ---------------------------------------------------------------- C16
withLeadingSlash(p) == IF p # <<>> /\ Head(p) = "/" THEN p ELSE <<"/">> \o p
withoutOneTrailingSlash(p) ==
  IF Len(p) > 1 /\ p[Len(p)] = "/" THEN SubSeq(p, 1, Len(p) - 1) ELSE p
\* An attach call that hands its mount path and its router to registerMount.
mountsAtPath(args) == Len(args) = 2 /\ args[1].k = "string" /\ args[2].k = "routerPlus"

\* C16: registerMount(p, R) appends one entry, holding R, whose path is p
\* with "/" put in front when p does not start with "/" and then one
\* trailing "/" removed unless the path is exactly "/": for "a/", "/a" and
\* "/a/" the entry's path is "/a", and for "/" it is "/".
C16_MountPathNormalization ==
  [][ mountsAtPath(forwarded'.args) =>
        LET p == forwarded'.args[1].str
            e == mountRegistry'[Len(mountRegistry')]
        IN /\ mountRegistry' = Append(mountRegistry, e)
           /\ e.registry = RegistryObject(forwarded'.args[2].id)
           /\ e.path = withoutOneTrailingSlash(withLeadingSlash(p))
           /\ (p \in {<<"a", "/">>, <<"/", "a">>, <<"/", "a", "/">>} => e.path = <<"/", "a">>)
           /\ (p = <<"/">> => e.path = <<"/">>)
    ]_vars

\* C16 witness: the ledger holds, in this order, the entries of
\* use("a/", R) and use("/a/", S), both at "/a".
C16_Witness ==
  /\ forwarded.args = <<Str(<<"/", "a", "/">>), RouterPlus("S")>>
  /\ Len(mountRegistry) = 2
  /\ mountRegistry[1] = [path |-> <<"/", "a">>, registry |-> RegistryObject("R")]
  /\ mountRegistry[2] = [path |-> <<"/", "a">>, registry |-> RegistryObject("S")]

\* ---------------------------------------------------------------- C17
isPrefix(s1, s2) == Len(s1) <= Len(s2) /\ SubSeq(s2, 1, Len(s1)) = s1

\* C17: a composition leaves the definitions the base had as a prefix of the
\* definitions it has afterwards, and appends no path definition whose
\* (method, path) is that of a definition the base had.
C17_FirstWriterWins ==
  [][ LET b == lastOp'.on
          before == definitions[b]
          after == definitions'[b]
      IN isComposition(lastOp') =>
           /\ isPrefix(before, after)
           /\ \A i \in appendedIndexes(before, after) :
                isPath(after[i]) =>
                  ~\E j \in 1..Len(before) : isPath(before[j]) /\ samePair(before[j], after[i])
    ]_vars

\* ---------------------------------------------------------------- C18
\* In SpecShared the routers of NestedRouters are attached to routers, and
\* the routers of Routers to apps.
isNestedEntry(e) == e.registry.id \in NestedRouters
isTopEntry(e) == e.registry.id \in Routers
pairOf(d) == [method |-> d.method, path |-> d.path]
\* The (method, path) pairs of the path definitions of the entries a
\* composition reads, each path rewritten with its own entry's mount path.
ownContributions(op) ==
  {[method |-> definitions[mountRegistry[n].registry.id][j].method,
    path |-> generatedPath(mountRegistry[n].path,
                           definitions[mountRegistry[n].registry.id][j].path)] :
     <<n, j>> \in {<<n, j>> \in (1..Len(mountRegistry)) \X (1..MaxOps) :
                     /\ composedBy(op, mountRegistry[n])
                     /\ j <= Len(definitions[mountRegistry[n].registry.id])}}

isMalformed(e) == e.registry.k \in {"null", "object"}
\* The ledger without the entries the composition finds no definitions in.
withoutSkipped(op, ledger) == SelectSeq(ledger, LAMBDA e : composedBy(op, e))
compositionOf(op, defs, base, ledger) ==
  IF op.op = "combine" THEN combineRegistries(defs, base, ledger)
  ELSE generateOpenAPIDocument(defs, base, ledger)

\* C19: a composition gives the registries the definitions it would give
\* them over the ledger with the entries without definitions removed; when
\* no entry of the ledger has definitions, every registry is left as it was.
C19_MalformedMountSkipped ==
  [][ isComposition(lastOp') =>
        /\ definitions' = compositionOf(lastOp', definitions, lastOp'.on,
                                        withoutSkipped(lastOp', mountRegistry))
        /\ (withoutSkipped(lastOp', mountRegistry) = <<>> => definitions' = definitions)
    ]_vars

\* C19 witness: the ledger holds an entry without a registry or without
\* definitions before an entry of router R, and the generation of A's
\* document has put R's path into A's registry.
C19_Witness ==
  /\ lastOp = [op |-> "generate", on |-> "A"]
  /\ Len(mountRegistry) = 2
  /\ isMalformed(mountRegistry[1])
  /\ mountRegistry[2].registry.id = "R"
  /\ Len(definitions["R"]) = 1
  /\ Len(definitions["A"]) = 1
  /\ holdsContribution(definitions["A"], mountRegistry[2].path, definitions["R"][1])

\* ---------------------------------------------------------------- C20
\* The definitions of the registry of the entry e, each path rewritten with
\* e's mount path.
contributionOf(e) ==
  [j \in 1..Len(definitions[e.registry.id]) |->
     [definitions[e.registry.id][j] EXCEPT !.path = generatedPath(e.path, @)]]
\* The contributions of the ledger's entries from the n-th on, in the
\* ledger's order.
RECURSIVE contributionsFrom(_)
contributionsFrom(n) ==
  IF n > Len(mountRegistry) THEN <<>>
  ELSE contributionOf(mountRegistry[n]) \o contributionsFrom(n + 1)

\* C20: the generation of the document of any app, the one the routers were
\* attached to or another one, appends to that app's registry the
\* contribution of every entry of the one ledger, in the order the entries
\* were recorded.
C20_SharedLedger ==
  [][ (lastOp'.op = "generate" /\ nOps' # nOps /\ UNCHANGED attachVars) =>
        definitions'[lastOp'.on] = definitions[lastOp'.on] \o contributionsFrom(1)
    ]_vars

\* C20 witness: router R was attached, to app A, at "/b" and then at "/c",
\* and the generation of app B's document has put R's path into B's
\* registry under "/b" and then under "/c".
C20_Witness ==
  /\ lastOp = [op |-> "generate", on |-> "B"]
  /\ mountRegistry = <<[path |-> <<"/", "b">>, registry |-> RegistryObject("R")],
                       [path |-> <<"/", "c">>, registry |-> RegistryObject("R")]>>
  /\ definitions["R"] = <<PathDef("post", <<"u">>, 0)>>
  /\ definitions["B"] = <<PathDef("post", <<"/", "b", "/", "u">>, 0),
                          PathDef("post", <<"/", "c", "/", "u">>, 0)>>

\* ---------------------------------------------------------------- C21
\* The registries the ledger's entries refer to.
mountedRegistries ==
  {mountRegistry[n].registry.id :
     n \in {i \in 1..Len(mountRegistry) : mountRegistry[i].registry.k \in {"Registry", "raw"}}}

\* C21: a composition into a base that is none of the mounted registries
\* leaves the definitions of every mounted registry and the entries of the
\* ledger as they were.
C21_CompositionLeavesMountedRegistries ==
  [][ (isComposition(lastOp') /\ lastOp'.on \notin mountedRegistries) =>
        /\ \A r \in mountedRegistries : definitions'[r] = definitions[r]
        /\ mountRegistry' = mountRegistry
    ]_vars

\* C21 witness: router R's raw registry is mounted at "/a" and holds
\* get "/u"; after combineRegistries and then a document generation into
\* A's registry, A holds get "/a/u" and R still holds get "/u", and the
\* ledger still is that one entry.
C21_Witness ==
  /\ lastOp = [op |-> "generate", on |-> "A"]
  /\ Len(documents) = 1
  /\ mountRegistry = <<[path |-> MountA, registry |-> RawRegistry("R")]>>
  /\ definitions["R"] = <<PathDef("get", <<"/", "u">>, 0)>>
  /\ definitions["A"] = <<PathDef("get", <<"/", "a", "/", "u">>, 0),
                          PathDef("get", <<"/", "a", "/", "u">>, 0)>>


====
